---- MODULE Spec2Model ----
(***************************************************************************)
(* A model of the rev_slice crate (src/src/lib.rs): RevSlice<T>, a        *)
(* reversed view of a slice, and the SliceExt extension trait.            *)
(*                                                                         *)
(* A slice reference is a region descriptor: the offset of its first      *)
(* element in the backing array S, its length, and whether the reference  *)
(* is `&mut`.  A RevSlice reference is the same descriptor under the      *)
(* other type (the crate transmutes one into the other).  A reference to  *)
(* one element is the physical position it points at.                     *)
(***************************************************************************)
EXTENDS Integers, Sequences, FiniteSets, TLC

\* ---- bounds -------------------------------------------------------------
MaxLen == 3     \* longest backing array
MaxVal == 2     \* element values are 1..MaxVal
W      == 3     \* width of usize in bits

USIZE == 2^W
Usize == 0..(USIZE - 1)
Vals  == 1..MaxVal
Seqs  == UNION {[1..n -> Vals] : n \in 0..MaxLen}
Iota(n) == [k \in 1..n |-> k]
Arrays  == {Iota(n) : n \in 0..MaxLen}

VARIABLES
    S,      \* the backing array, physical order (1-based here, 0-based in Rust)
    ovf,    \* build mode of integer overflow: "trap" (debug) or "wrap" (release)
    view,   \* the RevSlice reference the program currently holds
    call,   \* the most recent call: operation, receiver, arguments, result
    wr,     \* the most recent store: physical position and value
    it,     \* the iterator the program currently holds, and what it yielded
    win     \* history: the logical range of a.rev() the program asked for

vars == <<S, ovf, view, call, wr, it, win>>

\* ---- values -------------------------------------------------------------
Panicked == [kind |-> "panic"]
Absent   == [kind |-> "none"]
Unit     == [kind |-> "unit"]
Ref(p, m)      == [kind |-> "ref", ptr |-> p, mut |-> m]
Slice(o, n, m) == [kind |-> "slice", off |-> o, len |-> n, mut |-> m]
Pair(x, y)     == [kind |-> "pair", fst |-> x, snd |-> y]
Num(n)         == [kind |-> "usize", n |-> n]
Bool(b)        == [kind |-> "bool", b |-> b]

\* A `&mut` handed out where the signature says `&`: the reference is shared.
Shared(x) ==
    IF x.kind = "pair"
    THEN Pair([x.fst EXCEPT !.mut = FALSE], [x.snd EXCEPT !.mut = FALSE])
    ELSE IF x.kind \in {"ref", "slice", "rev"} THEN [x EXCEPT !.mut = FALSE]
    ELSE x

\* The element a reference points at.
Deref(r) == S[r.ptr + 1]

\* ---- usize arithmetic ---------------------------------------------------
\* `a + b` and `a - b` on usize: the exact result when it fits; otherwise a
\* panic in a build with overflow checks and the result modulo 2^W without.
Checked(x) ==
    IF x \in Usize THEN [ok |-> TRUE, val |-> x]
    ELSE IF ovf = "wrap" THEN [ok |-> TRUE, val |-> x % USIZE]
    ELSE [ok |-> FALSE, val |-> 0]

\* ---- core::slice, as the crate calls it ---------------------------------
slice_len(s) == s.len

slice_index(s, i) ==
    IF i < s.len THEN Ref(s.off + i, s.mut) ELSE Panicked

slice_index_range(s, start, end) ==
    IF start > end \/ end > s.len THEN Panicked
    ELSE Slice(s.off + start, end - start, s.mut)

slice_first(s) == IF s.len = 0 THEN Absent ELSE Ref(s.off, s.mut)

slice_last(s) == IF s.len = 0 THEN Absent ELSE Ref(s.off + s.len - 1, s.mut)

slice_split_first(s) ==
    IF s.len = 0 THEN Absent
    ELSE Pair(Ref(s.off, s.mut), Slice(s.off + 1, s.len - 1, s.mut))

slice_split_last(s) ==
    IF s.len = 0 THEN Absent
    ELSE Pair(Ref(s.off + s.len - 1, s.mut), Slice(s.off, s.len - 1, s.mut))

slice_split_at(s, mid) ==
    IF mid > s.len THEN Panicked
    ELSE Pair(Slice(s.off, mid, s.mut), Slice(s.off + mid, s.len - mid, s.mut))

\* ---- impl SliceExt for [T] ----------------------------------------------
\* transmute: the same region, now typed RevSlice.
SliceExt_rev(s)     == [kind |-> "rev", off |-> s.off, len |-> s.len, mut |-> FALSE]
SliceExt_rev_mut(s) == [kind |-> "rev", off |-> s.off, len |-> s.len, mut |-> TRUE]

\* ---- impl RevSlice ------------------------------------------------------
\* `&self.0` and `&mut self.0`
Inner(self)    == Slice(self.off, self.len, FALSE)
InnerMut(self) == Slice(self.off, self.len, TRUE)

rev(self)     == Inner(self)
rev_mut(self) == InnerMut(self)

len(self) == slice_len(Inner(self))

is_empty(self) == slice_len(Inner(self)) = 0

\* Mutant: the `+ 1` is forgotten.
flip_index_no_plus_one(self, index) == Checked(slice_len(Slice(self.off, self.len, FALSE)) - index)

flip_index(self, index) ==
    LET s == Checked(index + 1)
    IN  IF s.ok THEN Checked(len(self) - s.val) ELSE s

\* Mutant: a saturating subtraction.
flip_fencepost_saturating(self, index) ==
    [ok |-> TRUE,
     val |-> IF index > slice_len(Slice(self.off, self.len, FALSE)) THEN 0
             ELSE slice_len(Slice(self.off, self.len, FALSE)) - index]

flip_fencepost(self, index) == Checked(len(self) - index)

\* Mutant: the two ends are flipped but not swapped.
flip_range_not_swapped(self, start, end) ==
    LET s == flip_fencepost(self, start)
        e == flip_fencepost(self, end)
    IN  [ok |-> s.ok /\ e.ok, start |-> s.val, end |-> e.val]

flip_range(self, start, end) ==
    LET s == flip_fencepost(self, end)
        e == flip_fencepost(self, start)
    IN  [ok |-> s.ok /\ e.ok, start |-> s.val, end |-> e.val]

\* Mutant: the first element of the underlying slice.
first_not_flipped(self) == slice_first(Inner(self))

first(self) == slice_last(Inner(self))

first_mut(self) == slice_last(InnerMut(self))

last(self) == slice_first(Inner(self))

last_mut(self) == slice_first(InnerMut(self))

split_first(self) ==
    LET r == slice_split_last(Inner(self))
    IN  IF r.kind = "none" THEN Absent ELSE Pair(r.fst, SliceExt_rev(r.snd))

\* declared to return Option<(&T, &RevSlice<T>)>
split_first_mut(self) ==
    LET r == slice_split_last(InnerMut(self))
    IN  IF r.kind = "none" THEN Absent
        ELSE Shared(Pair(r.fst, SliceExt_rev_mut(r.snd)))

split_last(self) ==
    LET r == slice_split_first(Inner(self))
    IN  IF r.kind = "none" THEN Absent ELSE Pair(r.fst, SliceExt_rev(r.snd))

\* declared to return Option<(&T, &RevSlice<T>)>
split_last_mut(self) ==
    LET r == slice_split_first(InnerMut(self))
    IN  IF r.kind = "none" THEN Absent
        ELSE Shared(Pair(r.fst, SliceExt_rev_mut(r.snd)))

\* Mutant: the halves are returned in physical order.
split_at_not_swapped(self, mid) ==
    LET rmid == flip_fencepost(self, mid)
    IN  IF ~rmid.ok THEN Panicked
        ELSE LET r == slice_split_at(Inner(self), rmid.val)
             IN  IF r.kind = "panic" THEN Panicked
                 ELSE Pair(SliceExt_rev(r.fst), SliceExt_rev(r.snd))

split_at(self, mid) ==
    LET rmid == flip_fencepost(self, mid)
    IN  IF ~rmid.ok THEN Panicked
        ELSE LET r == slice_split_at(Inner(self), rmid.val)
             IN  IF r.kind = "panic" THEN Panicked
                 ELSE Pair(SliceExt_rev(r.snd), SliceExt_rev(r.fst))

split_at_mut(self, mid) ==
    LET rmid == flip_fencepost(self, mid)
    IN  IF ~rmid.ok THEN Panicked
        ELSE LET r == slice_split_at(InnerMut(self), rmid.val)
             IN  IF r.kind = "panic" THEN Panicked
                 ELSE Pair(SliceExt_rev_mut(r.snd), SliceExt_rev_mut(r.fst))

\* ---- impl Index / IndexMut ----------------------------------------------
index(self, i) ==
    LET rindex == flip_index(self, i)
    IN  IF ~rindex.ok THEN Panicked ELSE slice_index(Inner(self), rindex.val)

\* Mutant: the index is used unflipped.
index_mut_not_flipped(self, i) == slice_index(InnerMut(self), i)

index_mut(self, i) ==
    LET rindex == flip_index(self, i)
    IN  IF ~rindex.ok THEN Panicked ELSE slice_index(InnerMut(self), rindex.val)

\* Mutant: the range is used unflipped.
index_range_not_flipped(self, start, end) ==
    LET r == slice_index_range(Inner(self), start, end)
    IN  IF r.kind = "panic" THEN Panicked ELSE SliceExt_rev(r)

index_range(self, start, end) ==
    LET rindex == flip_range(self, start, end)
    IN  IF ~rindex.ok THEN Panicked
        ELSE LET r == slice_index_range(Inner(self), rindex.start, rindex.end)
             IN  IF r.kind = "panic" THEN Panicked ELSE SliceExt_rev(r)

index_range_mut(self, start, end) ==
    LET rindex == flip_range(self, start, end)
    IN  IF ~rindex.ok THEN Panicked
        ELSE LET r == slice_index_range(InnerMut(self), rindex.start, rindex.end)
             IN  IF r.kind = "panic" THEN Panicked ELSE SliceExt_rev_mut(r)

\* ---- iteration ----------------------------------------------------------
\* slice::Iter is a pair of cursors over the region; iter::Rev takes from
\* the back cursor.
slice_iter(s) == [lo |-> s.off, hi |-> s.off + s.len, mut |-> s.mut, rev |-> FALSE]

iter_rev(i) == [i EXCEPT !.rev = TRUE]

\* Mutant: the `.rev()` adapter is forgotten.
iter_forward(self) == slice_iter(Inner(self))

iter(self) == iter_rev(slice_iter(Inner(self)))

iter_mut(self) == iter_rev(slice_iter(InnerMut(self)))

into_iter(self) == iter(self)

\* Iterator::next: the item and the iterator afterwards.
iter_next(i) ==
    IF i.lo = i.hi THEN [item |-> Absent, rest |-> i]
    ELSE IF i.rev
         THEN [item |-> Ref(i.hi - 1, i.mut), rest |-> [i EXCEPT !.hi = i.hi - 1]]
         ELSE [item |-> Ref(i.lo, i.mut), rest |-> [i EXCEPT !.lo = i.lo + 1]]

\* ---- derive(PartialEq, Eq, PartialOrd, Ord) -----------------------------
\* The elements of a slice, in its own order.
Elems(s) == [k \in 1..s.len |-> S[s.off + k]]

\* Ord for [T]: lexicographic.
RECURSIVE slice_cmp(_, _)
slice_cmp(x, y) ==
    IF x = <<>> /\ y = <<>> THEN "Equal"
    ELSE IF x = <<>> THEN "Less"
    ELSE IF y = <<>> THEN "Greater"
    ELSE IF Head(x) < Head(y) THEN "Less"
    ELSE IF Head(x) > Head(y) THEN "Greater"
    ELSE slice_cmp(Tail(x), Tail(y))

slice_eq(x, y) == x = y

\* The derived impls compare the one field, self.0 with other.0.
derive_cmp(self0, other0) == slice_cmp(self0, other0)

derive_eq(self0, other0) == slice_eq(self0, other0)

\* ---- the program ---------------------------------------------------------
NoView  == [kind |-> "none"]
NoWrite == [by |-> "none"]
NoIter  == [live |-> FALSE]
NoCall  == [op |-> "none", self |-> NoView, a |-> 0, b |-> 0, ret |-> Unit]

\* `a.rev()` and `a.rev_mut()` on the whole array.
Whole == Slice(0, Len(S), TRUE)

Live == view.kind = "rev"

Call(op, a, b, ret) == [op |-> op, self |-> view, a |-> a, b |-> b, ret |-> ret]

\* A call that only reads through the view.
Returns(op, a, b, ret) ==
    /\ Live
    /\ call' = Call(op, a, b, ret)
    /\ UNCHANGED <<S, ovf, view, wr, it, win>>

\* The same through `&mut self`.
ReturnsMut(op, a, b, ret) ==
    /\ Live
    /\ view.mut
    /\ call' = Call(op, a, b, ret)
    /\ UNCHANGED <<S, ovf, view, wr, it, win>>

Rev ==
    /\ view' = SliceExt_rev(Whole)
    /\ call' = [op |-> "SliceExt::rev", self |-> NoView, a |-> 0, b |-> 0,
                ret |-> SliceExt_rev(Whole)]
    /\ win' = [lo |-> 0, hi |-> Len(S)]
    /\ UNCHANGED <<S, ovf, wr, it>>

RevMut ==
    /\ view' = SliceExt_rev_mut(Whole)
    /\ call' = [op |-> "SliceExt::rev_mut", self |-> NoView, a |-> 0, b |-> 0,
                ret |-> SliceExt_rev_mut(Whole)]
    /\ it' = NoIter
    /\ win' = [lo |-> 0, hi |-> Len(S)]
    /\ UNCHANGED <<S, ovf, wr>>

Unrev         == Returns("rev", 0, 0, rev(view))
UnrevMut      == ReturnsMut("rev_mut", 0, 0, rev_mut(view))
Len_          == Returns("len", 0, 0, Num(len(view)))
IsEmpty       == Returns("is_empty", 0, 0, Bool(is_empty(view)))
First         == Returns("first", 0, 0, first(view))
FirstMut      == ReturnsMut("first_mut", 0, 0, first_mut(view))
Last          == Returns("last", 0, 0, last(view))
LastMut       == ReturnsMut("last_mut", 0, 0, last_mut(view))
SplitFirst    == Returns("split_first", 0, 0, split_first(view))
SplitFirstMut == ReturnsMut("split_first_mut", 0, 0, split_first_mut(view))
SplitLast     == Returns("split_last", 0, 0, split_last(view))
SplitLastMut  == ReturnsMut("split_last_mut", 0, 0, split_last_mut(view))
SplitAt(mid)    == Returns("split_at", mid, 0, split_at(view, mid))
SplitAtMut(mid) == ReturnsMut("split_at_mut", mid, 0, split_at_mut(view, mid))
Index(i)        == Returns("index", i, 0, index(view, i))
IndexMut(i)     == ReturnsMut("index_mut", i, 0, index_mut(view, i))
IndexRange(s, e)    == Returns("index_range", s, e, index_range(view, s, e))
IndexRangeMut(s, e) == ReturnsMut("index_range_mut", s, e, index_range_mut(view, s, e))

\* The program goes on with a view the last call on its view handed it, and
\* notes which logical range of a.rev() it asked for.
TakeRet ==
    /\ Live
    /\ call.self = view
    /\ call.ret.kind = "rev"
    /\ view' = call.ret
    /\ win' = IF call.op \in {"index_range", "index_range_mut"}
              THEN [lo |-> win.lo + call.a, hi |-> win.lo + call.b]
              ELSE win
    /\ UNCHANGED <<S, ovf, call, wr, it>>

TakeFst ==
    /\ Live
    /\ call.self = view
    /\ call.ret.kind = "pair"
    /\ call.ret.fst.kind = "rev"
    /\ view' = call.ret.fst
    /\ win' = [lo |-> win.lo, hi |-> win.lo + call.a]
    /\ UNCHANGED <<S, ovf, call, wr, it>>

TakeSnd ==
    /\ Live
    /\ call.self = view
    /\ call.ret.kind = "pair"
    /\ call.ret.snd.kind = "rev"
    /\ view' = call.ret.snd
    /\ win' = IF call.op \in {"split_at", "split_at_mut"}
              THEN [lo |-> win.lo + call.a, hi |-> win.hi]
              ELSE IF call.op \in {"split_first", "split_first_mut"}
              THEN [lo |-> win.lo + 1, hi |-> win.hi]
              ELSE [lo |-> win.lo, hi |-> win.hi - 1]
    /\ UNCHANGED <<S, ovf, call, wr, it>>

\* `r[i] = v` through a mutable view.
Store(i, v) ==
    /\ Live
    /\ view.mut
    /\ LET r == index_mut(view, i)
       IN  /\ call' = Call("store", i, v, r)
           /\ IF r.kind = "ref"
              THEN /\ S' = [S EXCEPT ![r.ptr + 1] = v]
                   /\ wr' = [by |-> "view", at |-> r.ptr, val |-> v]
              ELSE UNCHANGED <<S, wr>>
    /\ UNCHANGED <<ovf, view, it, win>>

\* `a[j] = v` on the array itself; no view or iterator outlives it.
DirectWrite(j, v) ==
    /\ j < Len(S)
    /\ S' = [S EXCEPT ![j + 1] = v]
    /\ wr' = [by |-> "direct", at |-> j, val |-> v]
    /\ view' = NoView
    /\ it' = NoIter
    /\ call' = [op |-> "direct", self |-> NoView, a |-> j, b |-> v, ret |-> Unit]
    /\ UNCHANGED <<ovf, win>>

\* `r.iter()`, `r.iter_mut()`, `(&r).into_iter()`; `again` records that an
\* earlier iterator had already yielded something.
Begin(op, i) ==
    /\ Live
    /\ it' = [live |-> TRUE, cur |-> i, src |-> view, out |-> <<>>,
              again |-> it.live /\ (it.again \/ it.out # <<>>)]
    /\ call' = Call(op, 0, 0, Unit)
    /\ UNCHANGED <<S, ovf, view, wr, win>>

Iter     == Begin("iter", iter(view))
IterMut  == view.mut /\ Begin("iter_mut", iter_mut(view))
IntoIter == Begin("into_iter", into_iter(view))

IterNext ==
    /\ it.live
    /\ LET n == iter_next(it.cur)
       IN  /\ it' = [it EXCEPT !.cur = n.rest,
                               !.out = IF n.item.kind = "ref"
                                       THEN Append(@, Deref(n.item)) ELSE @]
           /\ call' = [op |-> "next", self |-> it.src, a |-> 0, b |-> 0,
                       ret |-> n.item]
    /\ UNCHANGED <<S, ovf, view, wr, win>>

\* `x.cmp(t.rev())` and `x == t.rev()` for another array t.
Cmp(t) ==
    /\ Live
    /\ call' = [op |-> "cmp", self |-> view, other |-> t,
                ret |-> [kind |-> "ord", ord |-> derive_cmp(Elems(Inner(view)), t)]]
    /\ UNCHANGED <<S, ovf, view, wr, it, win>>

Eq(t) ==
    /\ Live
    /\ call' = [op |-> "eq", self |-> view, other |-> t,
                ret |-> Bool(derive_eq(Elems(Inner(view)), t))]
    /\ UNCHANGED <<S, ovf, view, wr, it, win>>

\* ---- specifications -----------------------------------------------------
Start(arrays) ==
    /\ S \in arrays
    /\ ovf \in {"trap", "wrap"}
    /\ view = SliceExt_rev(Whole)
    /\ call = NoCall
    /\ wr = NoWrite
    /\ it = NoIter
    /\ win = [lo |-> 0, hi |-> Len(S)]

\* Views and sub-views of an array of distinct elements.
Init == Start(Arrays)

Next ==
    \/ Rev \/ RevMut \/ Unrev \/ UnrevMut \/ Len_ \/ IsEmpty
    \/ First \/ FirstMut \/ Last \/ LastMut
    \/ SplitFirst \/ SplitFirstMut \/ SplitLast \/ SplitLastMut
    \/ \E mid \in Usize : SplitAt(mid)
    \/ \E mid \in Usize : SplitAtMut(mid)
    \/ \E i \in Usize : Index(i)
    \/ \E i \in Usize : IndexMut(i)
    \/ \E s, e \in Usize : IndexRange(s, e)
    \/ \E s, e \in Usize : IndexRangeMut(s, e)
    \/ TakeRet \/ TakeFst \/ TakeSnd

Spec == Init /\ [][Next]_vars

\* Stores through a view and on the array, and reads back.
InitWrite == Start(Seqs)

NextWrite ==
    \/ Rev \/ RevMut
    \/ \E i \in Usize : Index(i)
    \/ \E i \in Usize, v \in Vals : Store(i, v)
    \/ \E j \in Usize, v \in Vals : DirectWrite(j, v)

SpecWrite == InitWrite /\ [][NextWrite]_vars

\* Iteration.
InitIter == Start(Seqs)

NextIter == Rev \/ RevMut \/ Iter \/ IterMut \/ IntoIter \/ IterNext

SpecIter == InitIter /\ [][NextIter]_vars

\* Comparison.
InitOrd == Start(Seqs)

NextOrd ==
    \/ Rev
    \/ \E t \in Seqs : Cmp(t)
    \/ \E t \in Seqs : Eq(t)

SpecOrd == InitOrd /\ [][NextOrd]_vars

\* ---- properties ---------------------------------------------------------
\* The receiver of the last call: its length, and the physical positions
\* just before and just past its region.
N  == call.self.len
Lo == call.self.off
Hi == call.self.off + call.self.len

\* The elements of a view in its own (logical) order, read by indexing it.
Logical(v) == [k \in 1..len(v) |-> Deref(index(v, k - 1))]

\* The physical positions a reference or view covers.
Span(x) == IF x.kind = "ref" THEN {x.ptr} ELSE x.off..(x.off + x.len - 1)

RECURSIVE Reverse(_)
Reverse(s) == IF s = <<>> THEN <<>> ELSE Append(Reverse(Tail(s)), Head(s))

\* C1: for a view of length n and every i < n, view[i] is a reference to the
\* element at physical position n-1-i of the viewed region.
C1_IndexMapping ==
    (call.op = "index" /\ call.a < N) =>
        /\ call.ret.kind = "ref"
        /\ call.ret.ptr = Lo + (N - 1 - call.a)
        /\ Deref(call.ret) = S[Lo + (N - 1 - call.a) + 1]

C1_Witness ==
    /\ call.op = "index"
    /\ call.self = SliceExt_rev(Whole)
    /\ N = MaxLen
    /\ call.a = 1
    /\ call.ret.kind = "ref"
    /\ Deref(call.ret) = MaxLen - 1

\* C2: for start <= end <= n, view[start..end] is a reversed view of length
\* end-start whose underlying slice is the physical range [n-end, n-start) of
\* the viewed region, so that its logical element k is the element at
\* physical position n-1-start-k.
C2_RangeMapping ==
    (call.op = "index_range" /\ call.a <= call.b /\ call.b <= N) =>
        /\ call.ret.kind = "rev"
        /\ len(call.ret) = call.b - call.a
        /\ rev(call.ret) = Slice(Lo + (N - call.b), call.b - call.a, FALSE)
        /\ \A k \in 0..(call.b - call.a - 1) :
              /\ index(call.ret, k).kind = "ref"
              /\ index(call.ret, k).ptr = Lo + (N - 1 - call.a - k)

C2_Witness ==
    /\ call.op = "index_range"
    /\ call.self = SliceExt_rev(Whole)
    /\ N = MaxLen
    /\ call.a = 1
    /\ call.b = MaxLen
    /\ call.ret.kind = "rev"
    /\ Logical(call.ret) = [k \in 1..(MaxLen - 1) |-> MaxLen - k]

\* C3: for mid <= n, split_at(mid) returns (A, B) with A of length mid and B
\* of length n-mid; A's logical elements followed by B's are the logical
\* elements of the view, and B.rev() followed by A.rev() is the underlying
\* slice; mid = 0 and mid = n give one empty and one full-length half.
C3_SplitConsistency ==
    (call.op = "split_at" /\ call.a <= N) =>
        /\ call.ret.kind = "pair"
        /\ call.ret.fst.kind = "rev"
        /\ call.ret.snd.kind = "rev"
        /\ len(call.ret.fst) = call.a
        /\ len(call.ret.snd) = N - call.a
        /\ Logical(call.ret.fst) \o Logical(call.ret.snd) = Logical(call.self)
        /\ Elems(rev(call.ret.snd)) \o Elems(rev(call.ret.fst)) = Elems(rev(call.self))
        /\ call.a = 0 => (is_empty(call.ret.fst) /\ len(call.ret.snd) = N)
        /\ call.a = N => (is_empty(call.ret.snd) /\ len(call.ret.fst) = N)

C3_Witness ==
    /\ call.op = "split_at"
    /\ call.self = SliceExt_rev(Whole)
    /\ N = MaxLen
    /\ call.a = 1
    /\ call.ret.kind = "pair"
    /\ Logical(call.ret.fst) = <<MaxLen>>
    /\ Elems(rev(call.ret.snd)) = Iota(MaxLen - 1)

\* C4: index(i) fails iff i >= n, index_range(s..e) fails iff s > e or e > n,
\* split_at(mid) fails iff mid > n, for every coordinate of the usize range
\* and in both overflow modes; a call that does not fail returns a result.
C4_FailsExactlyOutOfRange ==
    /\ call.op \in {"index", "index_mut"} =>
          /\ call.ret.kind = "panic" <=> call.a >= N
          /\ call.ret.kind \in {"panic", "ref"}
    /\ call.op \in {"index_range", "index_range_mut"} =>
          /\ call.ret.kind = "panic" <=> (call.a > call.b \/ call.b > N)
          /\ call.ret.kind \in {"panic", "rev"}
    /\ call.op \in {"split_at", "split_at_mut"} =>
          /\ call.ret.kind = "panic" <=> call.a > N
          /\ call.ret.kind \in {"panic", "pair"}

C4_Witness ==
    /\ ovf = "wrap"
    /\ call.op = "index"
    /\ N = MaxLen
    /\ call.a = USIZE - 1
    /\ call.ret.kind = "panic"

\* C5: comparing two reversed views gives the lexicographic order of their
\* logical (reversed) element sequences.
C5_OrderIsLogical ==
    call.op = "cmp" =>
        call.ret.ord = slice_cmp(Reverse(Elems(rev(call.self))), Reverse(call.other))

\* C6: split_at_mut, split_first_mut and split_last_mut each return two parts
\* over non-overlapping physical regions, both granting mutable access.
C6_MutSplitsGrantMut ==
    (call.op \in {"split_at_mut", "split_first_mut", "split_last_mut"}
        /\ call.ret.kind = "pair") =>
        /\ Span(call.ret.fst) \cap Span(call.ret.snd) = {}
        /\ call.ret.fst.mut
        /\ call.ret.snd.mut

\* C7: a store of v through rev_mut()[i], i < n, makes S[n-1-i] = v; and
\* after a store S[j] = v on the array, rev()[n-1-j] reads v.
C7_MutationVisibility ==
    /\ (call.op = "store" /\ call.a < N) =>
          /\ call.ret.kind = "ref"
          /\ S[Lo + (N - 1 - call.a) + 1] = call.b
    /\ (call.op = "index" /\ wr.by = "direct" /\ call.a = N - 1 - wr.at) =>
          /\ call.ret.kind = "ref"
          /\ Deref(call.ret) = wr.val

C7_Witness ==
    /\ call.op = "store"
    /\ call.self = SliceExt_rev_mut(Whole)
    /\ N = MaxLen
    /\ call.a = 0
    /\ call.b = MaxVal
    /\ S = [k \in 1..MaxLen |-> IF k = MaxLen THEN MaxVal ELSE 1]

\* C8: iterating a view of length n yields exactly n elements, the k-th
\* (from 0) being the element at physical position n-1-k, and an iterator
\* made after another was used yields the same from the start.
C8_IterationOrder ==
    it.live =>
        /\ Len(it.out) <= it.src.len
        /\ \A k \in 1..Len(it.out) : it.out[k] = S[it.src.off + it.src.len - k + 1]
        /\ (call.op = "next" /\ call.ret.kind = "none") => Len(it.out) = it.src.len
        /\ (call.op = "next" /\ call.ret.kind = "ref") =>
              call.ret.ptr = it.src.off + it.src.len - Len(it.out)
        /\ call.op \in {"iter", "iter_mut", "into_iter"} => it.out = <<>>

C8_Witness ==
    /\ it.live
    /\ it.again
    /\ call.op = "next"
    /\ call.ret.kind = "none"
    /\ Len(S) = MaxLen
    /\ S[1] = 1
    /\ S[MaxLen] = MaxVal
    /\ it.out = Reverse(S)

\* C9: first(), last(), split_first() and split_last() report absence iff
\* n = 0; otherwise first() is the element at physical position n-1, last()
\* the one at physical position 0, split_first() is (logical element 0, the
\* view of logical [1, n)) and split_last() is (logical element n-1, the view
\* of logical [0, n-1)), each rest view of length n-1.
C9_Ends ==
    /\ call.op = "first" =>
          IF N = 0 THEN call.ret.kind = "none"
          ELSE call.ret.kind = "ref" /\ call.ret.ptr = Hi - 1
    /\ call.op = "last" =>
          IF N = 0 THEN call.ret.kind = "none"
          ELSE call.ret.kind = "ref" /\ call.ret.ptr = Lo
    /\ call.op = "split_first" =>
          IF N = 0 THEN call.ret.kind = "none"
          ELSE /\ call.ret.kind = "pair"
               /\ call.ret.fst = index(call.self, 0)
               /\ call.ret.fst.ptr = Hi - 1
               /\ call.ret.snd.kind = "rev"
               /\ len(call.ret.snd) = N - 1
               /\ Logical(call.ret.snd) = SubSeq(Logical(call.self), 2, N)
    /\ call.op = "split_last" =>
          IF N = 0 THEN call.ret.kind = "none"
          ELSE /\ call.ret.kind = "pair"
               /\ call.ret.fst = index(call.self, N - 1)
               /\ call.ret.fst.ptr = Lo
               /\ call.ret.snd.kind = "rev"
               /\ len(call.ret.snd) = N - 1
               /\ Logical(call.ret.snd) = SubSeq(Logical(call.self), 1, N - 1)

C9_Witness ==
    /\ call.op = "split_first"
    /\ call.self = SliceExt_rev(Whole)
    /\ N = MaxLen
    /\ call.ret.kind = "pair"
    /\ Deref(call.ret.fst) = MaxLen
    /\ Logical(call.ret.snd) = [k \in 1..(MaxLen - 1) |-> MaxLen - k]

\* After any sequence of successful sub-view operations from a.rev(), the
\* view denotes a physical interval [lo, hi) of the array with
\* 0 <= lo <= hi <= len(a), namely the one of the logical range asked for;
\* its len() is hi - lo, its logical index i denotes the element at physical
\* position hi-1-i, and the array is left as it was.
C10_ViewDenotesInterval ==
    Live =>
        LET lo == Len(S) - win.hi
            hi == Len(S) - win.lo
        IN  /\ 0 <= lo /\ lo <= hi /\ hi <= Len(S)
            /\ Span(view) = lo..(hi - 1)
            /\ len(view) = hi - lo
            /\ \A i \in 0..(hi - lo - 1) :
                  /\ index(view, i).kind = "ref"
                  /\ index(view, i).ptr = hi - 1 - i

\* C10: in every state reached by sub-view operations the view denotes the
\* interval above, and no step of these operations changes the array.
C10_SubViews == []C10_ViewDenotesInterval /\ [][S' = S]_vars

C10_Witness ==
    /\ Live
    /\ Len(S) = MaxLen
    /\ win = [lo |-> 1, hi |-> MaxLen - 1]
    /\ view.off = 1
    /\ view.len = MaxLen - 2
    /\ call.op = "split_last"

====
